---------------------------- MODULE Spec2Model ----------------------------
(***************************************************************************)
(* Graph data types of neo4j/v1/types/graph.py: Entity, Node,              *)
(* Relationship and Path, with the path decompression of Path.hydrate.    *)
(*                                                                         *)
(* Python values are records tagged with their class: an attribute of an   *)
(* object is a field of its record, so "the object has attribute a" is     *)
(* "a \in DOMAIN obj".  Relationship objects, which Path.hydrate mutates,   *)
(* live in a heap and are held by reference; nodes are never assigned to   *)
(* and are held by value.                                                  *)
(***************************************************************************)
EXTENDS Integers, Sequences, FiniteSets, TLC

VARIABLES
    heap,     \* reference -> Relationship object (start/end are mutable)
    calls,    \* call id -> frame of a running Path.hydrate(nodes, rels, sequence)
    writer,   \* history: reference -> the call that last assigned start / end
    init,     \* history: heap and arguments at call time
    call,     \* the last operation applied to values (its name and arguments)
    ret       \* what that operation returned

vars == <<heap, calls, writer, init, call, ret>>

---------------------------------------------------------------------------
(* Bounds of the model *)

MaxNodes == 2
MaxRels == 2
MaxSeqLen == 4
MaxId == 1
ConcPairs == 1

---------------------------------------------------------------------------
(* Python values and built-ins *)

PyNone == [cls |-> "NoneType"]
PyInt(n) == [cls |-> "int", value |-> n]
EmptyMap == [k \in {} |-> PyNone]

HasAttr(obj, a) == a \in DOMAIN obj

Range(s) == {s[j] : j \in DOMAIN s}

\* seq[k] with Python's index rules: -len <= k < len, negative counts from the end
PyInRange(seq, k) == -Len(seq) <= k /\ k < Len(seq)
PyGet(seq, k) == IF k >= 0 THEN seq[k + 1] ELSE seq[Len(seq) + k + 1]

\* seq[start::2]
PySliceStep2(seq, start) ==
    [j \in 1..((Len(seq) - start + 1) \div 2) |-> seq[start + 2 * (j - 1) + 1]]

RECURSIVE Xor(_, _)
Xor(a, b) ==
    IF a = 0 THEN b
    ELSE IF b = 0 THEN a
    ELSE ((((a % 2) + (b % 2)) % 2) + (2 * Xor(a \div 2, b \div 2)))

\* hash() of an int in 0 .. 2^61-2 is the int itself.  hash(None) is specific
\* to the interpreter (address-derived before CPython 3.12) and is not modelled:
\* hashes are taken of hydrated entities only.
PyHash(v) == v.value

---------------------------------------------------------------------------
(* Entity, Node, Relationship *)

\* faulty variant of Entity_init: None values dropped from each mapping before the merge
Entity_init_FilterFirst(properties, kwproperties) ==
    LET base == {k \in DOMAIN properties : properties[k] # PyNone}
        over == {k \in DOMAIN kwproperties : kwproperties[k] # PyNone}
    IN [k \in base \cup over |-> IF k \in over THEN kwproperties[k] ELSE properties[k]]

\* dict(properties or {}, **kwproperties), then the entries with a None value dropped
Entity_init(properties, kwproperties) ==
    LET merged == [k \in DOMAIN properties \cup DOMAIN kwproperties |->
                      IF k \in DOMAIN kwproperties THEN kwproperties[k]
                      ELSE properties[k]]
        kept == {k \in DOMAIN merged : merged[k] # PyNone}
    IN [k \in kept |-> merged[k]]

\* faulty variant of Entity_eq: entities of different classes are not equal
Entity_eq_SameClass(self, other) ==
    IF HasAttr(other, "id") THEN self.cls = other.cls /\ self.id = other.id ELSE FALSE

Entity_eq(self, other) ==
    IF HasAttr(other, "id") THEN self.id = other.id ELSE FALSE

Entity_ne(self, other) == ~Entity_eq(self, other)

Entity_hash(self) == PyHash(self.id)

Entity_len(self) == Cardinality(DOMAIN self.properties)

Entity_contains(self, name) == name \in DOMAIN self.properties

Entity_get(self, name, default) ==
    IF name \in DOMAIN self.properties THEN self.properties[name] ELSE default

Node_init(labels, properties, kwproperties) ==
    [cls |-> "Node", id |-> PyNone,
     properties |-> Entity_init(properties, kwproperties),
     labels |-> Range(labels)]

Node_hydrate(id_, labels, properties) ==
    [Node_init(labels, properties, EmptyMap) EXCEPT !.id = id_]

Relationship_init(start, end, type, properties, kwproperties) ==
    [cls |-> "Relationship", id |-> PyNone,
     properties |-> Entity_init(properties, kwproperties),
     start |-> start, end |-> end, type |-> type]

Relationship_hydrate(id_, start, end, type, properties) ==
    [Relationship_init(start, end, type, properties, EmptyMap) EXCEPT !.id = id_]

Relationship_hydrate_unbound(id_, type, properties) ==
    Relationship_hydrate(id_, PyNone, PyNone, type, properties)

---------------------------------------------------------------------------
(* Path *)

Path_init(start_node, rels_and_nodes) ==
    [cls |-> "Path",
     nodes |-> <<start_node>> \o PySliceStep2(rels_and_nodes, 1),
     relationships |-> PySliceStep2(rels_and_nodes, 0)]

Path_start(self) == self.nodes[1]
Path_end(self) == self.nodes[Len(self.nodes)]
Path_len(self) == Len(self.relationships)

\* tuple == tuple: same length and the elements equal, here by Entity.__eq__
TupleEq(s, t) ==
    /\ Len(s) = Len(t)
    /\ \A j \in 1..Len(s) : Entity_eq(s[j], t[j])

\* other.start: the property of a Path, the field of a Relationship
HasStart(other) == other.cls = "Path" \/ HasAttr(other, "start")
GetStart(other) == IF other.cls = "Path" THEN Path_start(other) ELSE other.start

\* "and" evaluates left to right; an AttributeError on either side gives False
Path_eq(self, other) ==
    IF ~HasStart(other) THEN FALSE
    ELSE IF ~Entity_eq(Path_start(self), GetStart(other)) THEN FALSE
    ELSE IF ~HasAttr(other, "relationships") THEN FALSE
    ELSE TupleEq(self.relationships, other.relationships)

Path_ne(self, other) == ~Path_eq(self, other)

RECURSIVE XorHashes(_, _, _)
XorHashes(value, relationships, j) ==
    IF j > Len(relationships) THEN value
    ELSE XorHashes(Xor(value, Entity_hash(relationships[j])), relationships, j + 1)

\* faulty variant of Path_hash: every node of the path is hashed, not the start alone
Path_hash_AllNodes(self) ==
    XorHashes(XorHashes(0, self.nodes, 1), self.relationships, 1)

Path_hash(self) == XorHashes(Entity_hash(Path_start(self)), self.relationships, 1)

---------------------------------------------------------------------------
(* Path.hydrate(nodes, rels, sequence), one frame per call *)

Calls == DOMAIN calls
Refs == DOMAIN heap

Frame(nodes, rels, sequence) ==
    [nodes |-> nodes, rels |-> rels, sequence |-> sequence,
     pc |-> "enter", i |-> 0, rel_index |-> 0,
     last_node |-> PyNone, next_node |-> PyNone, r |-> 0,
     entities |-> <<>>, result |-> PyNone, exc |-> "none"]

Raise(f, e) == [f EXCEPT !.pc = "failed", !.exc = e]

\* the two assertions, last_node = nodes[0], entities = [last_node]
Enter(c) ==
    LET f == calls[c] IN
    /\ f.pc = "enter"
    /\ calls' = [calls EXCEPT ![c] =
          IF ~(Len(f.nodes) >= 1) THEN Raise(f, "AssertionError")
          ELSE IF ~(Len(f.sequence) % 2 = 0) THEN Raise(f, "AssertionError")
          ELSE [f EXCEPT !.pc = "loop", !.last_node = PyGet(f.nodes, 0),
                         !.entities = <<PyGet(f.nodes, 0)>>]]
    /\ UNCHANGED <<heap, writer, init, call, ret>>

\* faulty variant of RelPos: the selector used as the index, without the - 1
RelPos_OffByOne(rel_index) == IF rel_index > 0 THEN rel_index ELSE -rel_index

\* index into rels of the relationship a selector names
RelPos(rel_index) == IF rel_index > 0 THEN rel_index - 1 ELSE (-rel_index) - 1

\* faulty variant of Iterate: the loop body without "assert rel_index != 0"
Iterate_NoZeroCheck(c) ==
    LET f == calls[c]
        heads == PySliceStep2(f.sequence, 0)
    IN
    /\ f.pc = "loop"
    /\ f.i < Len(heads)
    /\ LET rel_index == heads[f.i + 1]
           pos == IF rel_index > 0 THEN rel_index - 1 ELSE (-rel_index) - 1
       IN
       calls' = [calls EXCEPT ![c] =
          IF ~PyInRange(f.sequence, 2 * f.i + 1) THEN Raise(f, "IndexError")
          ELSE IF ~PyInRange(f.nodes, PyGet(f.sequence, 2 * f.i + 1))
               THEN Raise(f, "IndexError")
          ELSE IF ~PyInRange(f.rels, pos) THEN Raise(f, "IndexError")
          ELSE [f EXCEPT !.pc = "setStart", !.rel_index = rel_index,
                   !.next_node = PyGet(f.nodes, PyGet(f.sequence, 2 * f.i + 1)),
                   !.r = PyGet(f.rels, pos)]]
    /\ UNCHANGED <<heap, writer, init, call, ret>>

\* top of the loop body for pair i: the assertion, next_node and r are looked up
Iterate(c) ==
    LET f == calls[c]
        heads == PySliceStep2(f.sequence, 0)
    IN
    /\ f.pc = "loop"
    /\ f.i < Len(heads)
    /\ LET rel_index == heads[f.i + 1] IN
       calls' = [calls EXCEPT ![c] =
          IF ~(rel_index # 0) THEN Raise(f, "AssertionError")
          ELSE IF ~PyInRange(f.sequence, 2 * f.i + 1) THEN Raise(f, "IndexError")
          ELSE IF ~PyInRange(f.nodes, PyGet(f.sequence, 2 * f.i + 1))
               THEN Raise(f, "IndexError")
          ELSE IF ~PyInRange(f.rels, RelPos(rel_index)) THEN Raise(f, "IndexError")
          ELSE [f EXCEPT !.pc = "setStart", !.rel_index = rel_index,
                   !.next_node = PyGet(f.nodes, PyGet(f.sequence, 2 * f.i + 1)),
                   !.r = PyGet(f.rels, RelPos(rel_index))]]
    /\ UNCHANGED <<heap, writer, init, call, ret>>

\* faulty variants of StartValue and EndValue: the sign of the selector ignored
StartValue_IgnoresSign(f) == f.last_node.id
EndValue_IgnoresSign(f) == f.next_node.id

\* what the pair assigns to r.start and to r.end
StartValue(f) == IF f.rel_index > 0 THEN f.last_node.id ELSE f.next_node.id
EndValue(f) == IF f.rel_index > 0 THEN f.next_node.id ELSE f.last_node.id

\* faulty variant of SetStart: the assignment goes to r.id
SetStart_WritesId(c) ==
    LET f == calls[c] IN
    /\ f.pc = "setStart"
    /\ heap' = [heap EXCEPT ![f.r].id =
                   IF f.rel_index > 0 THEN f.last_node.id ELSE f.next_node.id]
    /\ writer' = [writer EXCEPT ![f.r].start = c]
    /\ calls' = [calls EXCEPT ![c].pc = "setEnd"]
    /\ UNCHANGED <<init, call, ret>>

\* faulty variant of SetStart: the relationship is looked up by its selector in the heap,
\* not in the rels the call was given
SetStart_GlobalLookup(c) ==
    LET f == calls[c]
        ref == IF f.rel_index > 0 THEN f.rel_index ELSE -f.rel_index
    IN
    /\ f.pc = "setStart"
    /\ heap' = [heap EXCEPT ![ref].start =
                   IF f.rel_index > 0 THEN f.last_node.id ELSE f.next_node.id]
    /\ writer' = [writer EXCEPT ![ref].start = c]
    /\ calls' = [calls EXCEPT ![c].pc = "setEnd"]
    /\ UNCHANGED <<init, call, ret>>

\* r.start = ...
SetStart(c) ==
    LET f == calls[c] IN
    /\ f.pc = "setStart"
    /\ heap' = [heap EXCEPT ![f.r].start = StartValue(f)]
    /\ writer' = [writer EXCEPT ![f.r].start = c]
    /\ calls' = [calls EXCEPT ![c].pc = "setEnd"]
    /\ UNCHANGED <<init, call, ret>>

\* faulty variant of SetEnd: last_node is not advanced
SetEnd_KeepsLastNode(c) ==
    LET f == calls[c] IN
    /\ f.pc = "setEnd"
    /\ heap' = [heap EXCEPT ![f.r].end =
                   IF f.rel_index > 0 THEN f.next_node.id ELSE f.last_node.id]
    /\ writer' = [writer EXCEPT ![f.r].end = c]
    /\ calls' = [calls EXCEPT ![c] =
          [f EXCEPT !.pc = "loop", !.i = f.i + 1,
                    !.entities = f.entities \o <<f.r, f.next_node>>]]
    /\ UNCHANGED <<init, call, ret>>

\* r.end = ...; entities.append(r); entities.append(next_node); last_node = next_node
SetEnd(c) ==
    LET f == calls[c] IN
    /\ f.pc = "setEnd"
    /\ heap' = [heap EXCEPT ![f.r].end = EndValue(f)]
    /\ writer' = [writer EXCEPT ![f.r].end = c]
    /\ calls' = [calls EXCEPT ![c] =
          [f EXCEPT !.pc = "loop", !.i = f.i + 1,
                    !.entities = f.entities \o <<f.r, f.next_node>>,
                    !.last_node = f.next_node]]
    /\ UNCHANGED <<init, call, ret>>

\* return cls(*entities)
Return(c) ==
    LET f == calls[c] IN
    /\ f.pc = "loop"
    /\ f.i >= Len(PySliceStep2(f.sequence, 0))
    /\ calls' = [calls EXCEPT ![c] =
          [f EXCEPT !.pc = "done",
                    !.result = Path_init(Head(f.entities), Tail(f.entities))]]
    /\ UNCHANGED <<heap, writer, init, call, ret>>

---------------------------------------------------------------------------
(* Inputs of Path.hydrate *)

\* Lists over 0..n-1 up to a renaming of the values: a value is at most the
\* number of distinct values before it
Canonical(s) == \A j \in DOMAIN s : s[j] <= Cardinality({s[k] : k \in 1..(j - 1)})

ListsUpTo(S, n) == UNION {[1..m -> S] : m \in 0..n}

\* a hydrated node as the N structure gives it
WireNode(id) == Node_hydrate(PyInt(id), <<"L">>, [name |-> PyInt(id)])
\* an unbound relationship as the r structure gives it
WireRel(id) == Relationship_hydrate_unbound(PyInt(id), "T", [since |-> PyInt(id)])

NodeLists ==
    {[j \in DOMAIN s |-> WireNode(s[j])] :
        s \in {t \in ListsUpTo(0..(MaxNodes - 1), MaxNodes) : Canonical(t)}}

RelLists ==
    {[j \in DOMAIN s |-> s[j] + 1] :
        s \in {t \in ListsUpTo(0..(MaxRels - 1), MaxRels) : Canonical(t)}}

Selectors == (-MaxRels)..MaxRels
NodeIndexes == (-1)..(MaxNodes - 1)

Sequences ==
    {s \in ListsUpTo(Selectors \cup NodeIndexes, MaxSeqLen) :
        \A j \in DOMAIN s : IF j % 2 = 1 THEN s[j] \in Selectors
                            ELSE s[j] \in NodeIndexes}

\* no value operation is under way in the specifications of Path.hydrate
NoCall == [fn |-> "none"]
Pending == [cls |-> "pending"]

InitHeap == [r \in 1..MaxRels |-> WireRel(r)]
NoWriter == [r \in 1..MaxRels |-> [start |-> 0, end |-> 0]]

Init ==
    /\ heap = InitHeap
    /\ writer = NoWriter
    /\ \E nodes \in NodeLists, rels \in RelLists, sequence \in Sequences :
          calls = [c \in {1} |-> Frame(nodes, rels, sequence)]
    /\ init = [heap |-> heap,
               args |-> [c \in DOMAIN calls |->
                           [nodes |-> calls[c].nodes, rels |-> calls[c].rels,
                            sequence |-> calls[c].sequence]]]
    /\ call = NoCall
    /\ ret = Pending

Next ==
    \/ \E c \in Calls : Enter(c)
    \/ \E c \in Calls : Iterate(c)
    \/ \E c \in Calls : SetStart(c)
    \/ \E c \in Calls : SetEnd(c)
    \/ \E c \in Calls : Return(c)

Spec == Init /\ [][Next]_vars

---------------------------------------------------------------------------
(* Two calls of Path.hydrate whose steps interleave, over one heap *)

ConcHeap == [r \in 1..4 |-> WireRel(r)]
ConcNodes(c) == <<WireNode(2 * c - 2), WireNode(2 * c - 1)>>
\* the second call's rels: disjoint from <<1, 2>>, sharing one, sharing both
ConcRelsOfSecond == {<<3, 4>>, <<1, 4>>, <<2, 1>>}

\* well-formed sequences of at most ConcPairs pairs over two rels and two nodes
ConcSequences ==
    {s \in ListsUpTo({-2, -1, 0, 1, 2}, 2 * ConcPairs) :
        /\ Len(s) % 2 = 0
        /\ \A j \in DOMAIN s : IF j % 2 = 1 THEN s[j] # 0 ELSE s[j] \in {0, 1}}

InitConc ==
    /\ heap = ConcHeap
    /\ writer = [r \in DOMAIN ConcHeap |-> [start |-> 0, end |-> 0]]
    /\ \E rels2 \in ConcRelsOfSecond, seq1 \in ConcSequences, seq2 \in ConcSequences :
          calls = [c \in {1, 2} |->
                      IF c = 1 THEN Frame(ConcNodes(1), <<1, 2>>, seq1)
                      ELSE Frame(ConcNodes(2), rels2, seq2)]
    /\ init = [heap |-> heap,
               args |-> [c \in DOMAIN calls |->
                           [nodes |-> calls[c].nodes, rels |-> calls[c].rels,
                            sequence |-> calls[c].sequence]]]
    /\ call = NoCall
    /\ ret = Pending

SpecConc == InitConc /\ [][Next]_vars

---------------------------------------------------------------------------
(* Constructors, comparisons and hashes applied to values: the call is      *)
(* drawn at the start, one action applies it, Query reads the entity built  *)

PropKeys == {"a", "b"}
MapsTo(V) == UNION {[K -> V] : K \in SUBSET PropKeys}
BaseMaps == MapsTo({PyNone, PyInt(1)})
KwMaps == MapsTo({PyNone, PyInt(2)})
LabelLists == {<<>>, <<"L", "M", "L">>}
Ids == {PyInt(n) : n \in 0..MaxId}

NodeCalls ==
    {[fn |-> "Node", labels |-> l, properties |-> b, kwproperties |-> k] :
        l \in LabelLists, b \in BaseMaps, k \in KwMaps}
NodeHydrateCalls ==
    {[fn |-> "Node.hydrate", id |-> i, labels |-> l, properties |-> b] :
        i \in Ids, l \in LabelLists, b \in BaseMaps}
RelationshipCalls ==
    {[fn |-> "Relationship", start |-> PyInt(0), end |-> e, type |-> "T",
      properties |-> b, kwproperties |-> k] :
        e \in Ids, b \in BaseMaps, k \in KwMaps}
RelationshipHydrateCalls ==
    {[fn |-> "Relationship.hydrate", id |-> i, start |-> PyInt(0), end |-> e,
      type |-> "T", properties |-> b] :
        i \in Ids, e \in Ids, b \in BaseMaps}
HydrateUnboundCalls ==
    {[fn |-> "Relationship.hydrate_unbound", id |-> i, type |-> "T", properties |-> b] :
        i \in Ids, b \in BaseMaps}

\* entities to compare: hydrated and not, nodes and relationships
SomeEntities ==
    {Node_hydrate(i, <<"L">>, m) : i \in Ids, m \in {EmptyMap, [a |-> PyInt(1)]}}
    \cup {Relationship_hydrate(i, PyInt(0), PyInt(1), "T", EmptyMap) : i \in Ids}
    \cup {Relationship_hydrate_unbound(i, "T", EmptyMap) : i \in Ids}
    \cup {Node_init(<<>>, EmptyMap, EmptyMap), Node_init(<<"L">>, EmptyMap, EmptyMap),
          Relationship_init(PyNone, PyNone, "T", EmptyMap, EmptyMap)}
\* values that are no entities
Foreign == Ids \cup {PyNone}

EntityEqCalls ==
    {[fn |-> "Entity.__eq__", self |-> x, other |-> y] :
        x \in SomeEntities, y \in SomeEntities \cup Foreign}

\* Path(n0, r1, n1, ...) over hydrated entities, from the list of their ids
PathOfIds(ids) ==
    Path_init(Node_hydrate(PyInt(ids[1]), <<"L">>, EmptyMap),
              [j \in 1..(Len(ids) - 1) |->
                  IF j % 2 = 1
                  THEN Relationship_hydrate(PyInt(ids[j + 1]), PyInt(ids[j]),
                                            PyInt(ids[j + 2]), "T", EmptyMap)
                  ELSE Node_hydrate(PyInt(ids[j + 1]), <<"L">>, EmptyMap)])
SomePaths ==
    {PathOfIds(ids) :
        ids \in {s \in ListsUpTo(0..MaxId, 2 * (MaxSeqLen \div 2) + 1) : Len(s) % 2 = 1}}

PathEqCalls ==
    {[fn |-> "Path.__eq__", self |-> p, other |-> q] :
        p \in SomePaths,
        q \in SomePaths \cup {Relationship_hydrate(PyInt(0), PyInt(0), PyInt(1), "T", EmptyMap),
                              PyInt(0)}}

Hashable(v) == IF HasAttr(v, "id") THEN v.id.cls = "int" ELSE v.cls = "int"
HashOf(v) == IF HasAttr(v, "id") THEN Entity_hash(v) ELSE PyHash(v)

InitValue ==
    /\ heap = <<>>
    /\ calls = <<>>
    /\ writer = <<>>
    /\ init = [heap |-> <<>>, args |-> <<>>]
    /\ call \in NodeCalls \cup NodeHydrateCalls \cup RelationshipCalls
                \cup RelationshipHydrateCalls \cup HydrateUnboundCalls
                \cup EntityEqCalls \cup PathEqCalls
    /\ ret = Pending

Apply(fn, value) ==
    /\ call.fn = fn
    /\ ret = Pending
    /\ ret' = value
    /\ UNCHANGED <<heap, calls, writer, init, call>>

CallNode ==
    Apply("Node", Node_init(call.labels, call.properties, call.kwproperties))
CallNodeHydrate ==
    Apply("Node.hydrate", Node_hydrate(call.id, call.labels, call.properties))
CallRelationship ==
    Apply("Relationship", Relationship_init(call.start, call.end, call.type,
                                            call.properties, call.kwproperties))
CallRelationshipHydrate ==
    Apply("Relationship.hydrate", Relationship_hydrate(call.id, call.start, call.end,
                                                       call.type, call.properties))
CallHydrateUnbound ==
    Apply("Relationship.hydrate_unbound",
          Relationship_hydrate_unbound(call.id, call.type, call.properties))

\* self == other, self != other, and the two hashes where they are modelled
CallEntityEq ==
    Apply("Entity.__eq__",
          [cls |-> "compared",
           eq |-> Entity_eq(call.self, call.other),
           ne |-> Entity_ne(call.self, call.other),
           hashes |-> IF Hashable(call.self) /\ Hashable(call.other)
                      THEN <<Entity_hash(call.self), HashOf(call.other)>>
                      ELSE <<>>])

CallPathEq ==
    Apply("Path.__eq__",
          [cls |-> "compared",
           eq |-> Path_eq(call.self, call.other),
           ne |-> Path_ne(call.self, call.other),
           hashes |-> IF call.other.cls = "Path"
                      THEN <<Path_hash(call.self), Path_hash(call.other)>>
                      ELSE <<>>])

\* len(entity), name in entity, entity.get(name, default) on the entity just built
Query ==
    /\ HasAttr(ret, "properties")
    /\ \E name \in PropKeys, default \in {PyNone, PyInt(7)} :
          ret' = [cls |-> "queried", self |-> ret, name |-> name, default |-> default,
                  len |-> Entity_len(ret),
                  contains |-> Entity_contains(ret, name),
                  get |-> Entity_get(ret, name, default)]
    /\ UNCHANGED <<heap, calls, writer, init, call>>

NextValue ==
    \/ CallNode
    \/ CallNodeHydrate
    \/ CallRelationship
    \/ CallRelationshipHydrate
    \/ CallHydrateUnbound
    \/ CallEntityEq
    \/ CallPathEq
    \/ Query

SpecValue == InitValue /\ [][NextValue]_vars

---------------------------------------------------------------------------
(* Vocabulary of the properties of Path.hydrate *)

Abs(n) == IF n < 0 THEN -n ELSE n

\* the pairs of a sequence: pair k is (sequence[2k-1], sequence[2k]), 1-based
NumPairs(f) == Len(f.sequence) \div 2
Selector(f, k) == f.sequence[2 * k - 1]
NodeIndex(f, k) == f.sequence[2 * k]

\* the reference pair k selects, the node it goes to and the node it leaves
SelectedRef(f, k) == f.rels[Abs(Selector(f, k))]
NodeTo(f, k) == PyGet(f.nodes, NodeIndex(f, k))
NodeFrom(f, k) == IF k = 1 THEN f.nodes[1] ELSE NodeTo(f, k - 1)
PosTo(f, k) ==
    IF NodeIndex(f, k) >= 0 THEN NodeIndex(f, k) ELSE Len(f.nodes) + NodeIndex(f, k)
PosFrom(f, k) == IF k = 1 THEN 0 ELSE PosTo(f, k - 1)

\* the input meets the preconditions of Path.hydrate
WellFormed(f) ==
    /\ Len(f.nodes) >= 1
    /\ Len(f.sequence) % 2 = 0
    /\ \A k \in 1..NumPairs(f) :
          /\ Selector(f, k) # 0
          /\ Abs(Selector(f, k)) \in 1..Len(f.rels)
          /\ NodeIndex(f, k) \in 0..(Len(f.nodes) - 1)

\* odd length, no node, or a zero at a selector position (odd, 1-based)
Malformed(f) ==
    \/ Len(f.sequence) % 2 = 1
    \/ Len(f.nodes) = 0
    \/ \E j \in DOMAIN f.sequence : j % 2 = 1 /\ f.sequence[j] = 0

\* the pairs whose assignments have begun, and the references they select
PairsBegun(f) == IF f.pc = "setEnd" THEN f.i + 1 ELSE f.i
RefsBegun(f) == {SelectedRef(f, k) : k \in 1..PairsBegun(f)}

Endpoints(ref) == <<heap[ref].start, heap[ref].end>>

---------------------------------------------------------------------------
(* C1: right after pair i is processed, the relationship it selects runs    *)
(* from the node left to the node reached when the selector is positive,    *)
(* the other way round when it is negative; on a self-loop both endpoints   *)
(* are the id of the current node.                                          *)
C1_PairAssignsEndpoints ==
    \A c \in Calls :
        LET f == calls[c] IN
        (f.pc = "loop" /\ f.i >= 1) =>
            LET k == f.i
                last == NodeFrom(f, k)
                next == NodeTo(f, k)
                rel == heap[SelectedRef(f, k)]
            IN /\ Selector(f, k) > 0 => (rel.start = last.id /\ rel.end = next.id)
               /\ Selector(f, k) < 0 => (rel.start = next.id /\ rel.end = last.id)
               /\ PosTo(f, k) = PosFrom(f, k) =>
                     (rel.start = last.id /\ rel.end = last.id)

\* the second pair, reversed, between nodes of different ids, has been processed
C1_Witness ==
    \E c \in Calls :
        LET f == calls[c] IN
        /\ f.pc = "loop" /\ f.i = 2
        /\ Selector(f, 2) < 0
        /\ NodeFrom(f, 2).id # NodeTo(f, 2).id
        /\ Endpoints(SelectedRef(f, 2)) = <<NodeTo(f, 2).id, NodeFrom(f, 2).id>>

---------------------------------------------------------------------------
(* C2: on a well-formed input Path.hydrate does not fail, and the Path it   *)
(* returns holds nodes[0] and the node of each pair, the relationship of    *)
(* each pair, one more node than relationships, len = number of pairs,      *)
(* start = nodes[0] and end = the node of the last pair.                    *)
C2_ReturnsTheWalk ==
    \A c \in Calls :
        LET f == calls[c]
            k == NumPairs(f)
            p == f.result
        IN WellFormed(f) =>
            /\ f.pc # "failed"
            /\ f.pc = "done" =>
                /\ p.nodes = [j \in 1..(k + 1) |->
                                 IF j = 1 THEN f.nodes[1]
                                 ELSE f.nodes[NodeIndex(f, j - 1) + 1]]
                /\ p.relationships = [j \in 1..k |-> f.rels[Abs(Selector(f, j))]]
                /\ Len(p.nodes) = Len(p.relationships) + 1
                /\ Path_len(p) = k
                /\ Path_start(p) = f.nodes[1]
                /\ Path_end(p) = IF k = 0 THEN f.nodes[1]
                                 ELSE f.nodes[NodeIndex(f, k) + 1]

\* a walk of two pairs over two relationships has been returned
C2_Witness ==
    \E c \in Calls :
        LET f == calls[c] IN
        /\ f.pc = "done" /\ WellFormed(f) /\ NumPairs(f) = 2
        /\ Path_len(f.result) = 2
        /\ f.result.relationships[1] # f.result.relationships[2]
        /\ Path_end(f.result) # Path_start(f.result)

---------------------------------------------------------------------------
(* C3: a call whose sequence has odd length, whose node list is empty or    *)
(* which has a zero relationship selector never returns a Path: it holds    *)
(* no result at any time and can only end failed.  An assertion fails for   *)
(* these reasons only, so a 0 at a node-index position fails nothing.       *)
C3_MalformedFails ==
    \A c \in Calls :
        LET f == calls[c] IN
        /\ Malformed(f) =>
              /\ f.pc # "done"
              /\ f.result = PyNone
              /\ (f.pc = "failed" \/ ENABLED (Enter(c) \/ Iterate(c) \/ SetStart(c)
                                               \/ SetEnd(c) \/ Return(c)))
        /\ (f.pc = "failed" /\ f.exc = "AssertionError") => Malformed(f)

\* a zero selector in the second pair failed the call after the first pair was
\* processed, the first pair having node index 0
C3_Witness ==
    \E c \in Calls :
        LET f == calls[c] IN
        /\ f.pc = "failed" /\ f.exc = "AssertionError"
        /\ Len(f.nodes) >= 1 /\ Len(f.sequence) = 4
        /\ Selector(f, 1) # 0 /\ NodeIndex(f, 1) = 0 /\ Selector(f, 2) = 0
        /\ f.i = 1 /\ f.result = PyNone

---------------------------------------------------------------------------
MirroredPairs(f, j, k) ==
    /\ j # k
    /\ Selector(f, j) > 0 /\ Selector(f, k) < 0
    /\ NodeFrom(f, j) = NodeTo(f, k)
    /\ NodeTo(f, j) = NodeFrom(f, k)
    /\ \A m \in 1..NumPairs(f) :
          /\ m # j => SelectedRef(f, m) # SelectedRef(f, j)
          /\ m # k => SelectedRef(f, m) # SelectedRef(f, k)

(* C6 as claimed: a step with a positive selector from A to B and a step    *)
(* with a negative selector from B to A give relationships whose start and  *)
(* end are swapped with respect to each other.                              *)
C6_Claimed_Swapped ==
    \A c \in Calls :
        LET f == calls[c] IN
        f.pc = "done" =>
            \A j, k \in 1..NumPairs(f) :
                MirroredPairs(f, j, k) =>
                    /\ heap[SelectedRef(f, j)].start = heap[SelectedRef(f, k)].end
                    /\ heap[SelectedRef(f, j)].end = heap[SelectedRef(f, k)].start

(* C6 as amended: the two steps give relationships with the same start and  *)
(* the same end: start = A.id and end = B.id in both.                       *)
C6_MirroredStepsAgree ==
    \A c \in Calls :
        LET f == calls[c] IN
        f.pc = "done" =>
            \A j, k \in 1..NumPairs(f) :
                MirroredPairs(f, j, k) =>
                    /\ Endpoints(SelectedRef(f, j)) = Endpoints(SelectedRef(f, k))
                    /\ Endpoints(SelectedRef(f, j)) =
                           <<NodeFrom(f, j).id, NodeTo(f, j).id>>

\* a forward step from A to B and a reverse step from B to A, A.id # B.id
C6_Witness ==
    \E c \in Calls :
        LET f == calls[c] IN
        /\ f.pc = "done"
        /\ \E j, k \in 1..NumPairs(f) :
              /\ MirroredPairs(f, j, k)
              /\ NodeFrom(f, j).id # NodeTo(f, j).id
              /\ Endpoints(SelectedRef(f, k)) = <<NodeTo(f, k).id, NodeFrom(f, k).id>>

---------------------------------------------------------------------------
(* C8: at every step of a call, ended or not, failed or not, the argument   *)
(* lists (and with them every node's id, labels and properties) are as at   *)
(* call time, every relationship keeps its id, type and properties, and a   *)
(* relationship no pair has begun to assign keeps its endpoints.            *)
C8_OnlyEndpointsChange ==
    /\ \A c \in Calls :
          /\ calls[c].nodes = init.args[c].nodes
          /\ calls[c].rels = init.args[c].rels
          /\ calls[c].sequence = init.args[c].sequence
    /\ DOMAIN heap = DOMAIN init.heap
    /\ \A ref \in Refs :
          /\ heap[ref].cls = init.heap[ref].cls
          /\ heap[ref].id = init.heap[ref].id
          /\ heap[ref].type = init.heap[ref].type
          /\ heap[ref].properties = init.heap[ref].properties
          /\ ref \notin UNION {RefsBegun(calls[c]) : c \in Calls} =>
                /\ heap[ref].start = init.heap[ref].start
                /\ heap[ref].end = init.heap[ref].end

\* a call failed after one pair: the relationship of that pair has endpoints,
\* another relationship of rels is still unbound
C8_Witness ==
    \E c \in Calls :
        LET f == calls[c] IN
        /\ f.pc = "failed" /\ f.i = 1
        /\ heap[SelectedRef(f, 1)].start # PyNone
        /\ heap[SelectedRef(f, 1)].end # PyNone
        /\ \E j \in DOMAIN f.rels :
              /\ f.rels[j] # SelectedRef(f, 1)
              /\ Endpoints(f.rels[j]) = <<PyNone, PyNone>>

---------------------------------------------------------------------------
Adjacent(p, j) ==
    \/ Endpoints(p.relationships[j]) = <<p.nodes[j].id, p.nodes[j + 1].id>>
    \/ Endpoints(p.relationships[j]) = <<p.nodes[j + 1].id, p.nodes[j].id>>

NoRepeats(f) ==
    \A j, k \in 1..NumPairs(f) : j # k => SelectedRef(f, j) # SelectedRef(f, k)

(* C9: in a returned Path, a relationship at a position that is the last    *)
(* to select it joins the nodes before and after it, in the direction of    *)
(* the selector; so when no relationship is selected twice every position   *)
(* i has endpoints (nodes[i].id, nodes[i+1].id) or the reverse.             *)
C9_Adjacency ==
    \A c \in Calls :
        LET f == calls[c]
            p == f.result
        IN f.pc = "done" =>
            /\ NoRepeats(f) => \A j \in 1..Path_len(p) : Adjacent(p, j)
            /\ \A j \in 1..Path_len(p) :
                  (\A k \in (j + 1)..Path_len(p) :
                        p.relationships[k] # p.relationships[j]) =>
                     Endpoints(p.relationships[j]) =
                        IF Selector(f, j) > 0
                        THEN <<p.nodes[j].id, p.nodes[j + 1].id>>
                        ELSE <<p.nodes[j + 1].id, p.nodes[j].id>>

\* a returned path of two different relationships over three node positions,
\* the second step leaving a node other than nodes[0]
C9_Witness ==
    \E c \in Calls :
        LET f == calls[c]
            p == f.result
        IN /\ f.pc = "done" /\ NumPairs(f) = 2 /\ NoRepeats(f)
           /\ p.nodes[1].id # p.nodes[2].id
           /\ Adjacent(p, 1) /\ Adjacent(p, 2)

---------------------------------------------------------------------------
PassedTo(c) == Range(calls[c].rels)
SharedRefs == {ref \in Refs : \E c, d \in Calls : c # d /\ ref \in PassedTo(c) \cap PassedTo(d)}

\* the last pair of f selecting ref, 0 when none does
LastPairOf(f, ref) ==
    LET ks == {k \in 1..NumPairs(f) : SelectedRef(f, k) = ref}
    IN IF ks = {} THEN 0 ELSE CHOOSE k \in ks : \A m \in ks : m <= k

\* what the call run alone from the call-time heap leaves in ref, and returns
AloneEndpoints(f, ref) ==
    LET k == LastPairOf(f, ref) IN
    IF k = 0 THEN <<init.heap[ref].start, init.heap[ref].end>>
    ELSE IF Selector(f, k) > 0 THEN <<NodeFrom(f, k).id, NodeTo(f, k).id>>
    ELSE <<NodeTo(f, k).id, NodeFrom(f, k).id>>

AlonePath(f) ==
    [cls |-> "Path",
     nodes |-> [j \in 1..(NumPairs(f) + 1) |-> IF j = 1 THEN f.nodes[1] ELSE NodeTo(f, j - 1)],
     relationships |-> [j \in 1..NumPairs(f) |-> SelectedRef(f, j)]]

(* C10: when no relationship instance is passed to both calls, a call that  *)
(* has returned holds the Path, and its relationships the endpoints, that   *)
(* the call gives when run alone, however the steps interleaved; and a      *)
(* returned Path holds an endpoint assigned by the other call only when     *)
(* that relationship instance was passed to both calls.                     *)
C10_DisjointCallsIndependent ==
    \A c \in Calls :
        LET f == calls[c] IN
        f.pc = "done" =>
            /\ SharedRefs = {} =>
                  /\ f.result = AlonePath(f)
                  /\ \A ref \in PassedTo(c) : Endpoints(ref) = AloneEndpoints(f, ref)
            /\ \A ref \in Range(f.result.relationships) :
                  (writer[ref].start # c \/ writer[ref].end # c) => ref \in SharedRefs

\* both calls returned; a relationship of the first call's Path has its start
\* from the first call and its end from the second
C10_Witness ==
    /\ \A c \in Calls : calls[c].pc = "done"
    /\ \E ref \in Range(calls[1].result.relationships) :
          /\ ref \in SharedRefs
          /\ writer[ref].start = 1 /\ writer[ref].end = 2
          /\ Endpoints(ref) # AloneEndpoints(calls[1], ref)
          /\ Endpoints(ref) # AloneEndpoints(calls[2], ref)

---------------------------------------------------------------------------
Resolvable(v) == HasAttr(v, "id") /\ v.id # PyNone

EntityCompared == call.fn = "Entity.__eq__" /\ ret # Pending

(* C4 as claimed: x == y is true exactly when both sides have a resolvable  *)
(* identifier (an id that is set) and the identifiers are equal, so that a  *)
(* comparison with a foreign object or between two entities that are not    *)
(* hydrated yields not equal; x != y is the negation of x == y.             *)
C4_Claimed_UnhydratedUnequal ==
    EntityCompared =>
        /\ ret.eq = (Resolvable(call.self) /\ Resolvable(call.other)
                     /\ call.self.id = call.other.id)
        /\ ret.ne = ~ret.eq

(* C4 as amended: x == y is true exactly when y has an id attribute and     *)
(* x.id equals y.id, the id of an entity that is not hydrated being None:   *)
(* two entities that are not hydrated compare equal.  A value without id    *)
(* (an integer, None) compares not equal, without an error, and x != y is   *)
(* the negation of x == y.                                                  *)
C4_EqualById ==
    EntityCompared =>
        /\ ret.eq \in BOOLEAN
        /\ ret.eq = (HasAttr(call.other, "id") /\ call.self.id = call.other.id)
        /\ (~Resolvable(call.self) /\ HasAttr(call.other, "id")
               /\ ~Resolvable(call.other)) => ret.eq
        /\ ~HasAttr(call.other, "id") => ~ret.eq
        /\ ret.ne = ~ret.eq

\* a node and a relationship, neither hydrated, were compared and found equal
C4_Witness ==
    /\ EntityCompared
    /\ call.self.cls = "Node" /\ call.other.cls = "Relationship"
    /\ call.self.id = PyNone /\ call.other.id = PyNone
    /\ ret.eq /\ ~ret.ne

---------------------------------------------------------------------------
RECURSIVE XorOfIds(_)
XorOfIds(ents) ==
    IF ents = <<>> THEN 0 ELSE Xor(Head(ents).id.value, XorOfIds(Tail(ents)))

PathsCompared == call.fn = "Path.__eq__" /\ ret # Pending /\ call.other.cls = "Path"

(* C5: two hydrated entities that compare equal have equal hashes; two      *)
(* Paths compare equal exactly when their start nodes are equal and their   *)
(* relationships are equal one by one in order, the hash of a Path is the   *)
(* exclusive-or of the hash of its start node and of the hashes of its      *)
(* relationships, and two Paths that compare equal have equal hashes.       *)
C5_EqualImpliesEqualHash ==
    /\ (EntityCompared /\ ret.hashes # <<>> /\ ret.eq) => ret.hashes[1] = ret.hashes[2]
    /\ PathsCompared =>
          LET p == call.self
              q == call.other
          IN /\ ret.eq = (/\ p.nodes[1].id = q.nodes[1].id
                          /\ Len(p.relationships) = Len(q.relationships)
                          /\ \A j \in 1..Len(p.relationships) :
                                j <= Len(q.relationships) =>
                                    p.relationships[j].id = q.relationships[j].id)
             /\ ret.hashes[1] = XorOfIds(<<p.nodes[1]>> \o p.relationships)
             /\ ret.hashes[2] = XorOfIds(<<q.nodes[1]>> \o q.relationships)
             /\ ret.eq => ret.hashes[1] = ret.hashes[2]

\* two Paths of two relationships that end at nodes of different ids compared
\* equal, with hashes that are equal and not 0
C5_Witness ==
    /\ PathsCompared
    /\ Path_len(call.self) = 2
    /\ Path_end(call.self).id # Path_end(call.other).id
    /\ ret.eq
    /\ ret.hashes[1] = ret.hashes[2] /\ ret.hashes[1] # 0

---------------------------------------------------------------------------
Constructors ==
    {"Node", "Node.hydrate", "Relationship", "Relationship.hydrate",
     "Relationship.hydrate_unbound"}

Overrides == IF HasAttr(call, "kwproperties") THEN call.kwproperties ELSE EmptyMap

\* the value a key was given: the override if there is one, else the base; None if neither
Given(k) ==
    IF k \in DOMAIN Overrides THEN Overrides[k]
    ELSE IF k \in DOMAIN call.properties THEN call.properties[k]
    ELSE PyNone

(* C7: the properties of an entity built by a constructor or a hydrate      *)
(* function are the base mapping merged with the named overrides, an        *)
(* override winning on a shared key, without the entries whose value is     *)
(* None: no stored value is None, a key given with None is not contained,   *)
(* get of it returns the default, and len counts the other entries.         *)
C7_PropertiesDropNone ==
    (call.fn \in Constructors /\ ret # Pending) =>
        LET e == IF ret.cls = "queried" THEN ret.self ELSE ret IN
        /\ DOMAIN e.properties = {k \in PropKeys : Given(k) # PyNone}
        /\ \A k \in DOMAIN e.properties :
              e.properties[k] = Given(k) /\ e.properties[k] # PyNone
        /\ ret.cls = "queried" =>
              /\ ret.contains = (Given(ret.name) # PyNone)
              /\ ret.get = IF Given(ret.name) # PyNone THEN Given(ret.name)
                           ELSE ret.default
              /\ ret.len = Cardinality({k \in PropKeys : Given(k) # PyNone})

\* a node built with a = 1 overridden by a = None and with b = 1: a is not
\* contained, get gives the default, len is 1
C7_Witness ==
    /\ call.fn = "Node" /\ ret # Pending /\ ret.cls = "queried"
    /\ call.properties = [a |-> PyInt(1), b |-> PyInt(1)]
    /\ call.kwproperties = [a |-> PyNone]
    /\ ret.name = "a" /\ ret.default = PyInt(7)
    /\ ~ret.contains /\ ret.get = PyInt(7) /\ ret.len = 1

=============================================================================
